---- MODULE Spec2Model ----
(***************************************************************************)
(* Model of LibraryManager (console_based_library_mangement/               *)
(* library_management.py): one sqlite3 connection over the table `books`,  *)
(* and the operations add_book, view_all_books, remove_book,               *)
(* update_read_status, search_books, get_statistics, export_library,       *)
(* import_library and close.                                               *)
(*                                                                         *)
(* The connection is Python's sqlite3 in its default (legacy) transaction  *)
(* mode: an INSERT, UPDATE or DELETE opens a transaction implicitly, and   *)
(* only conn.commit() makes its changes durable.  `view` is the table as   *)
(* the handle reads it (committed rows plus the open transaction's         *)
(* changes); `disk` is the table as committed.  Texts are sequences of     *)
(* one-character strings, so that LIKE and ORDER BY can be computed.       *)
(***************************************************************************)
EXTENDS Integers, Sequences, FiniteSets, TLC

VARIABLES
    view,      \* rows of books as read through self.cursor
    seq,       \* sqlite_sequence entry of books as read through the handle
    disk,      \* rows of books durably committed
    diskSeq,   \* sqlite_sequence entry of books durably committed
    open,      \* the connection is open (self.conn not yet closed)
    issued,    \* history: the ids the storage layer has assigned, in order
    out        \* the last operation: its name, arguments, return value, output

vars == <<view, seq, disk, diskSeq, open, issued, out>>

-----------------------------------------------------------------------------
(* Bounds of the model *)

\* add_book is not taken once the catalog holds MaxBooks rows; an import file
\* holds at most MaxBooks records.
MaxBooks == 2

\* No add and no import that inserts is started once the storage layer has
\* assigned MaxId ids.
MaxId == 3

-----------------------------------------------------------------------------
(* Values *)

NoArg == "-"

\* The keys import_library reads from a record of the file.
RequiredKeys ==
    {"title", "author", "publication_year", "genre", "read_status", "added_date"}

\* The (title, author, publication_year, genre) the shell is given.
Shelf ==
    { [title |-> <<"a", "b">>, author |-> <<"H">>, publication_year |-> 1965,
       genre |-> <<"A", "I">>],
      [title |-> <<"B">>, author |-> <<"b">>, publication_year |-> 2001,
       genre |-> <<"A", "r", "t">>] }

\* datetime.now().strftime(...) at the moment of an add: two moments.
Dates == { <<"d", "1">>, <<"d", "2">> }

\* Search terms (non-empty: the shell refuses an empty one), with LIKE's
\* wildcard characters among them.
Terms == { <<"a">>, <<"b">>, <<"_">> }

SearchFields == {"title", "author", "genre"}

\* Answers to the confirmation prompt of import_library.
Confirms == {"y", "Y", "n"}

\* The ids the shell may be given (some of no book).
Ids == 1..(MaxId + MaxBooks)

-----------------------------------------------------------------------------
(* Helpers: integers, characters and texts *)

Max(a, b) == IF a >= b THEN a ELSE b

\* The largest rowid of a set of rows, 0 when there is none.
MaxRowid(rows) ==
    IF rows = {} THEN 0
    ELSE CHOOSE m \in {r.id : r \in rows} : \A r \in rows : r.id <= m

\* Byte value of a character (ORDER BY title uses the BINARY collation).
Code(c) ==
    CASE c = "%" -> 37 [] c = "1" -> 49 [] c = "2" -> 50
      [] c = "A" -> 65 [] c = "B" -> 66 [] c = "H" -> 72 [] c = "I" -> 73
      [] c = "_" -> 95 [] c = "a" -> 97 [] c = "b" -> 98 [] c = "d" -> 100
      [] c = "r" -> 114 [] c = "t" -> 116 [] OTHER -> 0

\* ASCII case folding, as LIKE does it.
Lower(c) ==
    CASE c = "A" -> "a" [] c = "B" -> "b" [] c = "H" -> "h" [] c = "I" -> "i"
      [] OTHER -> c

RECURSIVE BinaryLeq(_, _)
\* s <= t in the BINARY collation (memcmp, the shorter text first on a tie).
BinaryLeq(s, t) ==
    IF s = <<>> THEN TRUE
    ELSE IF t = <<>> THEN FALSE
    ELSE IF Code(Head(s)) < Code(Head(t)) THEN TRUE
    ELSE IF Code(Head(s)) > Code(Head(t)) THEN FALSE
    ELSE BinaryLeq(Tail(s), Tail(t))

RECURSIVE Like(_, _)
\* text LIKE pattern: % matches any run of characters, _ any one character,
\* any other character itself without regard to ASCII case.
Like(pattern, text) ==
    IF pattern = <<>> THEN text = <<>>
    ELSE IF Head(pattern) = "%"
         THEN Like(Tail(pattern), text)
              \/ (text # <<>> /\ Like(pattern, Tail(text)))
    ELSE /\ text # <<>>
         /\ (Head(pattern) = "_" \/ Lower(Head(pattern)) = Lower(Head(text)))
         /\ Like(Tail(pattern), Tail(text))

RECURSIVE PermSeqs(_)
\* Every ordering of a finite set, as sequences.
PermSeqs(S) ==
    IF S = {} THEN {<<>>}
    ELSE UNION { { <<x>> \o q : q \in PermSeqs(S \ {x}) } : x \in S }

\* ORDER BY title: every ordering of the rows in which titles ascend (the
\* order among equal titles is the engine's).
OrderByTitle(rows) ==
    { q \in PermSeqs(rows) :
        \A i \in 1..(Len(q) - 1) : BinaryLeq(q[i].title, q[i + 1].title) }

-----------------------------------------------------------------------------
(* The storage layer *)

\* A Python bool bound to a parameter is stored as the integer 1 or 0.
SqlBool(b) == IF b THEN 1 ELSE 0

\* Python's truth value of a stored read_status (bool(x), not x, if x).
Truthy(v) == v # 0

\* As NextId, had the column been declared without AUTOINCREMENT: one more
\* than the largest id the table holds now.
NextId_NoAutoincrement(rows, s) == MaxRowid(rows) + 1

\* id INTEGER PRIMARY KEY AUTOINCREMENT: one more than the largest id the
\* table has ever held.
NextId(rows, s) == Max(s, MaxRowid(rows)) + 1

\* As InsertRow, with title and author bound in the wrong order.
InsertRow_Swapped(rows, s, title, author, year, genre, read_status, added_date) ==
    LET id == NextId(rows, s)
    IN  [rows |-> rows \cup { [id |-> id, title |-> author, author |-> title,
                               publication_year |-> year, genre |-> genre,
                               read_status |-> SqlBool(read_status),
                               added_date |-> added_date] },
         seq |-> Max(s, id),
         id |-> id]

\* INSERT INTO books (title, author, publication_year, genre, read_status,
\* added_date) VALUES (?, ?, ?, ?, ?, ?)
InsertRow(rows, s, title, author, year, genre, read_status, added_date) ==
    LET id == NextId(rows, s)
    IN  [rows |-> rows \cup { [id |-> id, title |-> title, author |-> author,
                               publication_year |-> year, genre |-> genre,
                               read_status |-> SqlBool(read_status),
                               added_date |-> added_date] },
         seq |-> Max(s, id),
         id |-> id]

\* The return value and output of an operation: the message it prints, the
\* table or file it writes, the totals; arg is the answer given to the
\* prompt of import_library.
Out(op, arg, ret, msg, rows, stats) ==
    [op |-> op, arg |-> arg, ret |-> ret, msg |-> msg, rows |-> rows,
     stats |-> stats]

NoStats == [total |-> 0, read |-> 0, tenths |-> 0]

\* __init__: connect_db, setup_db (CREATE TABLE IF NOT EXISTS, commit).
Init ==
    /\ view = {}
    /\ seq = 0
    /\ disk = {}
    /\ diskSeq = 0
    /\ open = TRUE
    /\ issued = <<>>
    /\ out = Out("init", NoArg, "None", "connected", <<>>, NoStats)

-----------------------------------------------------------------------------
(* Catalog operations *)

\* add_book(title, author, publication_year, genre, read_status)
AddBook(b, read_status, now) ==
    /\ open
    /\ Cardinality(view) < MaxBooks
    /\ seq < MaxId
    /\ LET ins == InsertRow(view, seq, b.title, b.author, b.publication_year,
                            b.genre, read_status, now)
       IN  /\ view' = ins.rows
           /\ seq' = ins.seq
           /\ disk' = ins.rows
           /\ diskSeq' = ins.seq
           /\ issued' = Append(issued, ins.id)
           /\ out' = Out("add", NoArg, "True", "added", <<>>, NoStats)
    /\ UNCHANGED open

\* The table as view_all_books and search_books print it: the read status is
\* shown as "Read" or "Unread" (line 84, line 171).
FormatRows(q) ==
    [i \in 1..Len(q) |->
        [q[i] EXCEPT !.read_status = IF Truthy(@) THEN "Read" ELSE "Unread"]]

\* view_all_books(): SELECT * FROM books ORDER BY title
ViewAllBooks ==
    /\ open
    /\ \E q \in OrderByTitle(view) :
          out' = Out("list", NoArg, "None",
                     IF view = {} THEN "empty" ELSE "table",
                     FormatRows(q), NoStats)
    /\ UNCHANGED <<view, seq, disk, diskSeq, open, issued>>

\* SELECT ... FROM books WHERE id = ?
RowsWithId(rows, book_id) == { r \in rows : r.id = book_id }

\* As DeleteById, deleting by the title that was looked up.
DeleteById_ByTitle(rows, book_id) ==
    { r \in rows : \A x \in RowsWithId(rows, book_id) : r.title # x.title }

\* DELETE FROM books WHERE id = ?
DeleteById(rows, book_id) == { r \in rows : r.id # book_id }

\* remove_book(book_id)
RemoveBook(book_id) ==
    /\ open
    /\ IF RowsWithId(view, book_id) = {}
       THEN /\ out' = Out("remove", NoArg, "False", "not_found", <<>>, NoStats)
            /\ UNCHANGED <<view, seq, disk, diskSeq>>
       ELSE LET rows == DeleteById(view, book_id)
            IN  /\ view' = rows
                /\ disk' = rows
                /\ diskSeq' = seq
                /\ out' = Out("remove", NoArg, "True", "removed", <<>>, NoStats)
                /\ UNCHANGED seq
    /\ UNCHANGED <<open, issued>>

\* As SetReadStatus, with the WHERE clause left out.
SetReadStatus_AllRows(rows, book_id, new_status) ==
    { [r EXCEPT !.read_status = SqlBool(new_status)] : r \in rows }

\* UPDATE books SET read_status = ? WHERE id = ?
SetReadStatus(rows, book_id, new_status) ==
    { IF r.id = book_id THEN [r EXCEPT !.read_status = SqlBool(new_status)] ELSE r
        : r \in rows }

\* As NewStatus, with the `not` left out.
NewStatus_NoFlip(read_status) == Truthy(read_status)

\* new_status = not book[1]
NewStatus(read_status) == ~Truthy(read_status)

\* The rows after update_read_status(book_id) on a book that exists.
ToggleRows(rows, book_id) ==
    LET book == CHOOSE r \in RowsWithId(rows, book_id) : TRUE
    IN  SetReadStatus(rows, book_id, NewStatus(book.read_status))

\* update_read_status(book_id)
UpdateReadStatus(book_id) ==
    /\ open
    /\ IF RowsWithId(view, book_id) = {}
       THEN /\ out' = Out("toggle", NoArg, "False", "not_found", <<>>, NoStats)
            /\ UNCHANGED <<view, seq, disk, diskSeq>>
       ELSE LET book == CHOOSE r \in RowsWithId(view, book_id) : TRUE
                new_status == NewStatus(book.read_status)
                rows == ToggleRows(view, book_id)
            IN  /\ view' = rows
                /\ disk' = rows
                /\ diskSeq' = seq
                /\ out' = Out("toggle", NoArg, "True",
                              IF new_status THEN "Read" ELSE "Unread",
                              <<>>, NoStats)
                /\ UNCHANGED seq
    /\ UNCHANGED <<open, issued>>

\* The column a search names.
Column(r, search_by) ==
    CASE search_by = "title" -> r.title
      [] search_by = "author" -> r.author
      [] search_by = "genre" -> r.genre

\* SELECT * FROM books WHERE {search_by} LIKE '%{search_term}%'
Matching(rows, search_term, search_by) ==
    { r \in rows : Like(<<"%">> \o search_term \o <<"%">>, Column(r, search_by)) }

\* search_books(search_term, search_by)
SearchBooks(search_term, search_by) ==
    /\ open
    /\ LET found == Matching(view, search_term, search_by)
       IN  \E q \in OrderByTitle(found) :
              out' = Out("search", NoArg, "None",
                         IF found = {} THEN "no_match" ELSE "results",
                         FormatRows(q), NoStats)
    /\ UNCHANGED <<view, seq, disk, diskSeq, open, issued>>

\* f"{percent_read:.1f}" of read_books / total_books * 100, in tenths of a
\* percent: the nearest tenth, an exact half going to the even one.
PercentTenths(read_books, total_books) ==
    LET n == 1000 * read_books
        q == n \div total_books
        rem == n % total_books
    IN  IF 2 * rem > total_books THEN q + 1
        ELSE IF 2 * rem < total_books THEN q
        ELSE IF q % 2 = 0 THEN q ELSE q + 1

\* As CountRead, comparing read_status with the text 'True': no row matches.
CountRead_Text(rows) == Cardinality({ r \in rows : FALSE })

\* SELECT COUNT(*) FROM books WHERE read_status = 1
CountRead(rows) == Cardinality({ r \in rows : r.read_status = 1 })

\* get_statistics(): the totals it prints (the genre, author and decade
\* histograms that follow are printed from the same rows and change nothing).
GetStatistics ==
    /\ open
    /\ LET total_books == Cardinality(view)
       IN  IF total_books = 0
           THEN out' = Out("stats", NoArg, "None", "empty", <<>>, NoStats)
           ELSE out' = Out("stats", NoArg, "None", "stats", <<>>,
                           [total |-> total_books,
                            read |-> CountRead(view),
                            tenths |-> PercentTenths(CountRead(view), total_books)])
    /\ UNCHANGED <<view, seq, disk, diskSeq, open, issued>>

-----------------------------------------------------------------------------
(* Import / export *)

\* As BookDict, with "read_status": book[5] is True (false of every stored 1).
BookDict_IsTrue(r) ==
    [keys |-> RequiredKeys \cup {"id"},
     id |-> r.id, title |-> r.title, author |-> r.author,
     publication_year |-> r.publication_year, genre |-> r.genre,
     read_status |-> FALSE, added_date |-> r.added_date]

\* The dictionary export_library builds from a row (lines 261-269).
BookDict(r) ==
    [keys |-> RequiredKeys \cup {"id"},
     id |-> r.id, title |-> r.title, author |-> r.author,
     publication_year |-> r.publication_year, genre |-> r.genre,
     read_status |-> Truthy(r.read_status), added_date |-> r.added_date]

\* export_library(filename): SELECT * FROM books (in the engine's order),
\* json.dump of the dictionaries.  out.rows is the file written.
ExportLibrary ==
    /\ open
    /\ IF view = {}
       THEN out' = Out("export", NoArg, "False", "nothing_to_export", <<>>, NoStats)
       ELSE \E q \in PermSeqs(view) :
               out' = Out("export", NoArg, "True", "exported",
                          [i \in 1..Len(q) |-> BookDict(q[i])], NoStats)
    /\ UNCHANGED <<view, seq, disk, diskSeq, open, issued>>

\* A record of a file written by hand or by another program: the keys of an
\* exported record with values of the exported types (files of several
\* different books come from export_library) ...
GoodRecords ==
    { [keys |-> RequiredKeys \cup {"id"},
       id |-> 1, title |-> <<"a", "b">>, author |-> <<"H">>,
       publication_year |-> 1965, genre |-> <<"A", "I">>,
       read_status |-> TRUE, added_date |-> <<"d", "1">>] }

\* ... or a record that lacks the key 'title', or the key 'added_date'.
BadRecords ==
    LET g == CHOOSE x \in GoodRecords : TRUE
    IN  { [g EXCEPT !.keys = @ \ {"title"}],
          [g EXCEPT !.keys = @ \ {"added_date"}] }

RECURSIVE SeqsUpTo(_, _)
\* The sequences over S of length at most n.
SeqsUpTo(S, n) ==
    IF n = 0 THEN {<<>>}
    ELSE LET shorter == SeqsUpTo(S, n - 1)
         IN  shorter \cup { Append(q, x) : q \in shorter, x \in S }

\* Files of at most MaxBooks records, written by hand: records with every
\* key, then possibly one record that lacks a key (import_library reads
\* nothing that follows such a record).
HandWritten ==
    SeqsUpTo(GoodRecords, MaxBooks)
    \cup { Append(q, x) : q \in SeqsUpTo(GoodRecords, MaxBooks - 1),
                          x \in BadRecords }

\* The file named to import_library: none (os.path.exists is false), the
\* file export_library has just written, or a hand-written one.  books is
\* what json.load returns.
Files ==
    { [exists |-> FALSE, books |-> <<>>] }
    \cup { [exists |-> TRUE, books |-> q] : q \in HandWritten }
    \cup (IF out.op = "export" /\ out.ret = "True"
          THEN { [exists |-> TRUE, books |-> out.rows] }
          ELSE {})

\* book['title'], ..., book['added_date'] all exist (else KeyError).
HasKeys(book) == RequiredKeys \subseteq book.keys

RECURSIVE ImportLoop(_, _)
\* for book in books: INSERT ... (lines 308-320), stopping at the first record
\* that raises.  st = [rows, seq, issued, ok].
ImportLoop(st, books) ==
    IF books = <<>> THEN st
    ELSE IF ~HasKeys(Head(books)) THEN [st EXCEPT !.ok = FALSE]
    ELSE LET b == Head(books)
             ins == InsertRow(st.rows, st.seq, b.title, b.author,
                              b.publication_year, b.genre, b.read_status,
                              b.added_date)
         IN  ImportLoop([rows |-> ins.rows, seq |-> ins.seq,
                         issued |-> Append(st.issued, ins.id), ok |-> TRUE],
                        Tail(books))

\* As Affirmative, with the answer never looked at.
Affirmative_Any(confirm) == TRUE

\* confirm.lower() != 'y' is false
Affirmative(confirm) == confirm \in {"y", "Y"}

\* DELETE FROM books (line 305)
DeleteAll(rows) == {}

\* import_library(filename), the prompt answered by `confirm`
ImportLibrary(file, confirm) ==
    /\ open
    /\ IF ~file.exists
       THEN /\ out' = Out("import", NoArg, "False",
                          "file_not_found", <<>>, NoStats)
            /\ UNCHANGED <<view, seq, disk, diskSeq, issued>>
       ELSE IF file.books = <<>>
       THEN /\ out' = Out("import", NoArg, "False",
                          "no_books_in_file", <<>>, NoStats)
            /\ UNCHANGED <<view, seq, disk, diskSeq, issued>>
       ELSE IF ~Affirmative(confirm)
       THEN /\ out' = Out("import", confirm, "False", "cancelled", <<>>, NoStats)
            /\ UNCHANGED <<view, seq, disk, diskSeq, issued>>
       ELSE LET st == ImportLoop([rows |-> DeleteAll(view), seq |-> seq,
                                  issued |-> issued, ok |-> TRUE], file.books)
            IN  /\ st.issued = issued \/ seq < MaxId
                /\ view' = st.rows
                /\ seq' = st.seq
                /\ issued' = st.issued
                /\ IF st.ok
                   THEN /\ disk' = st.rows
                        /\ diskSeq' = st.seq
                        /\ out' = Out("import", confirm,
                                      "True", "imported", file.books, NoStats)
                   ELSE /\ out' = Out("import", confirm,
                                      "False", "error", <<>>, NoStats)
                        /\ UNCHANGED <<disk, diskSeq>>
    /\ UNCHANGED open

\* close(): the connection is closed; sqlite discards what was not committed.
Close ==
    /\ open
    /\ open' = FALSE
    /\ view' = disk
    /\ seq' = diskSeq
    /\ out' = Out("close", NoArg, "None", "closed", <<>>, NoStats)
    /\ UNCHANGED <<disk, diskSeq, issued>>

-----------------------------------------------------------------------------

Next ==
    \/ \E b \in Shelf, r \in BOOLEAN, now \in Dates : AddBook(b, r, now)
    \/ ViewAllBooks
    \/ \E id \in Ids : RemoveBook(id)
    \/ \E id \in Ids : UpdateReadStatus(id)
    \/ \E t \in Terms, f \in SearchFields : SearchBooks(t, f)
    \/ GetStatistics
    \/ ExportLibrary
    \/ \E file \in Files, c \in Confirms : ImportLibrary(file, c)
    \/ Close

Spec == Init /\ [][Next]_vars

-----------------------------------------------------------------------------
(* Vocabulary of the properties *)

IdsOf(rows) == { r.id : r \in rows }

\* What the catalog records of a book besides its id.
Tuple(r) ==
    <<r.title, r.author, r.publication_year, r.genre, r.read_status, r.added_date>>

\* The same tuples with the same multiplicities.
SameTuples(A, B) ==
    \A t \in { Tuple(r) : r \in A \cup B } :
        Cardinality({ r \in A : Tuple(r) = t }) = Cardinality({ r \in B : Tuple(r) = t })

\* What list_all shows of a row.
Listed(r) ==
    [id |-> r.id, title |-> r.title, author |-> r.author,
     publication_year |-> r.publication_year, genre |-> r.genre,
     read_status |-> IF r.read_status = 1 THEN "Read" ELSE "Unread",
     added_date |-> r.added_date]

Entries(q) == { q[i] : i \in 1..Len(q) }

TitlesAscend(q) ==
    \A i \in 1..Len(q), j \in 1..Len(q) : i < j => BinaryLeq(q[i].title, q[j].title)

-----------------------------------------------------------------------------
(* C1 *)

\* C1: when import_library returns failure, the catalog read through the
\* handle and the catalog durably committed are those from before the call.
C1_ImportFaultLeavesCatalog ==
    [][ (out'.op = "import" /\ out'.ret = "False")
            => (view' = view /\ disk' = disk) ]_vars

-----------------------------------------------------------------------------
(* C2 *)

\* What add promises of the step it takes.
AddPost(b, read_status, now) ==
    /\ out'.ret = "True"
    /\ \E new \in view' :
          /\ new.id \notin IdsOf(view)
          /\ view' = view \cup {new}
          /\ \A other \in view' \ {new} : other.id # new.id
          /\ new.title = b.title
          /\ new.author = b.author
          /\ new.publication_year = b.publication_year
          /\ new.genre = b.genre
          /\ new.read_status \in {0, 1}
          /\ (new.read_status = 1) <=> read_status
          /\ new.added_date = now

\* C2: add inserts exactly one new book with the input's title, author,
\* publication_year, genre and read_status, an id no other book has and
\* added_date set, every earlier book staying as it was; and list_all shows
\* exactly the books of the catalog, by title ascending.
C2_AddThenList ==
    [][ /\ out'.op = "add" =>
             \A b \in Shelf, r \in BOOLEAN, now \in Dates :
                 AddBook(b, r, now) => AddPost(b, r, now)
        /\ out'.op = "list" =>
             /\ Entries(out'.rows) = { Listed(r) : r \in view' }
             /\ Len(out'.rows) = Cardinality(view')
             /\ TitlesAscend(out'.rows) ]_vars

\* A book has been added to a catalog that held one already.
C2_Witness == out.op = "add" /\ Cardinality(view) = 2

-----------------------------------------------------------------------------
(* C3 *)

\* C3: remove of a present id returns success and deletes exactly that book,
\* every other book staying as it was; remove of an absent id returns False,
\* reports not-found and leaves the catalog as it was.
C3_RemoveExactlyThat ==
    [][ out'.op = "remove" =>
          \A id \in Ids :
              RemoveBook(id) =>
                  IF id \in IdsOf(view)
                  THEN /\ out'.ret = "True"
                       /\ id \notin IdsOf(view')
                       /\ view' = { r \in view : r.id # id }
                       /\ Cardinality(view') = Cardinality(view) - 1
                  ELSE /\ out'.ret = "False"
                       /\ out'.msg = "not_found"
                       /\ view' = view
                       /\ disk' = disk ]_vars

\* A book has been removed and another is left.
C3_Witness == out.op = "remove" /\ out.ret = "True" /\ view # {}

-----------------------------------------------------------------------------
(* C4 *)

\* C4: each id the storage layer assigns is strictly greater than every id it
\* assigned before, so no two books, present or deleted, carry the same id;
\* and every book of the catalog carries an id so assigned.
C4_IdsNeverReused ==
    /\ \A i \in 1..Len(issued), j \in 1..Len(issued) : i < j => issued[i] < issued[j]
    /\ IdsOf(view) \cup IdsOf(disk) \subseteq { issued[i] : i \in 1..Len(issued) }

\* An insert has followed the deletion of the book with the highest id.
C4_Witness ==
    /\ Len(issued) >= 2
    /\ issued[Len(issued)] \in IdsOf(view)
    /\ issued[Len(issued) - 1] \notin IdsOf(view)
    /\ \A r \in view : r.id >= issued[Len(issued)]

-----------------------------------------------------------------------------
(* C5 *)

\* C5: on a non-empty catalog, export followed by import of the exported
\* file with an affirmative answer succeeds and yields a catalog with the
\* same (title, author, publication_year, genre, read_status, added_date)
\* tuples, with the same multiplicities, as before the export.
C5_RoundTrip ==
    [][ (out.op = "export" /\ out.ret = "True" /\ out'.op = "import") =>
          \A c \in {"y", "Y"} :
              ImportLibrary([exists |-> TRUE, books |-> out.rows], c) =>
                  /\ view # {}
                  /\ out'.ret = "True"
                  /\ SameTuples(view, view') ]_vars

\* An exported file of two books with the same tuple (its records carry the
\* two ids) has been imported.
C5_Witness ==
    /\ out.op = "import"
    /\ out.ret = "True"
    /\ Len(out.rows) = 2
    /\ out.rows[1].id # out.rows[2].id
    /\ Cardinality(view) = 2
    /\ Cardinality({ Tuple(r) : r \in view }) = 1

-----------------------------------------------------------------------------
(* C6 *)

\* A record of the file as the table stores it.
StoredTuple(rec) ==
    <<rec.title, rec.author, rec.publication_year, rec.genre,
      IF rec.read_status THEN 1 ELSE 0, rec.added_date>>

\* C6: an import whose prompt is answered by anything other than y or Y (or
\* is never reached) returns failure and deletes and inserts nothing; an
\* import that succeeds was answered y or Y, leaves no book of the old
\* catalog, and holds exactly the records of the file.
C6_NoReplaceWithoutConfirmation ==
    [][ out'.op = "import" =>
          /\ out'.arg \notin {"y", "Y"} =>
                /\ out'.ret = "False"
                /\ view' = view
                /\ disk' = disk
                /\ seq' = seq
                /\ issued' = issued
          /\ out'.ret = "True" =>
                /\ out'.arg \in {"y", "Y"}
                /\ IdsOf(view') \cap IdsOf(view) = {}
                /\ Cardinality(view') = Len(out'.rows)
                /\ \A t \in { Tuple(r) : r \in view' } :
                      Cardinality({ r \in view' : Tuple(r) = t })
                        = Cardinality({ i \in 1..Len(out'.rows) :
                                          StoredTuple(out'.rows[i]) = t })
                /\ disk' = view' ]_vars

\* An import of a file with records has been refused at the prompt, the
\* catalog holding books.
C6_Witness == out.op = "import" /\ out.msg = "cancelled" /\ view # {}

-----------------------------------------------------------------------------
(* C7 *)

\* C7: toggle_read_status of a present id returns success and yields the
\* opposite read_status, and applying it once more gives back the catalog
\* from before; on an absent id it reports not-found and changes nothing.
C7_ToggleInvolutive ==
    [][ out'.op = "toggle" =>
          \A id \in Ids :
              UpdateReadStatus(id) =>
                  IF id \in IdsOf(view)
                  THEN /\ out'.ret = "True"
                       /\ \A r \in view, r2 \in view' :
                             (r.id = id /\ r2.id = id) =>
                                 /\ r2.read_status \in {0, 1}
                                 /\ r2.read_status # r.read_status
                       /\ id \in IdsOf(view')
                       /\ ToggleRows(view', id) = view
                  ELSE /\ out'.ret = "False"
                       /\ out'.msg = "not_found"
                       /\ view' = view
                       /\ disk' = disk ]_vars

\* The status of a book has been toggled to unread, another book being read.
C7_Witness ==
    /\ out.op = "toggle"
    /\ out.ret = "True"
    /\ out.msg = "Unread"
    /\ \E r \in view : r.read_status = 1

-----------------------------------------------------------------------------
(* C8 *)

Fold(text) == [i \in 1..Len(text) |-> Lower(text[i])]

\* term occurs in text as a substring, letter case set aside.
Contains(text, term) ==
    \E i \in 0..(Len(text) - Len(term)) :
        SubSeq(Fold(text), i + 1, i + Len(term)) = Fold(term)

\* C8: search(term, field) returns exactly the books whose field contains
\* term as a substring, by title ascending (nothing when none does), and
\* leaves the catalog unchanged.
C8_SearchIsSubstring ==
    [][ out'.op = "search" =>
          \A t \in Terms, f \in SearchFields :
              SearchBooks(t, f) =>
                  /\ Entries(out'.rows)
                       = { Listed(r) : r \in { x \in view : Contains(Column(x, f), t) } }
                  /\ Len(out'.rows)
                       = Cardinality({ x \in view : Contains(Column(x, f), t) })
                  /\ TitlesAscend(out'.rows)
                  /\ view' = view
                  /\ disk' = disk ]_vars

-----------------------------------------------------------------------------
(* C9 *)

Abs(n) == IF n >= 0 THEN n ELSE 0 - n

\* C9: statistics of an empty catalog report the empty case and no figures;
\* of a catalog of N > 0 books, R of them read, they report total N, read R
\* and R / N * 100 to one decimal place.
C9_Statistics ==
    out.op = "stats" =>
        LET N == Cardinality(view)
            R == Cardinality({ r \in view : Listed(r).read_status = "Read" })
        IN  IF N = 0
            THEN out.msg = "empty" /\ out.stats = NoStats
            ELSE /\ out.msg = "stats"
                 /\ out.stats.total = N
                 /\ out.stats.read = R
                 /\ 2 * Abs(out.stats.tenths * N - 1000 * R) <= N

\* Statistics of a catalog of two books, one of them read.
C9_Witness ==
    /\ out.op = "stats"
    /\ out.stats.total = 2
    /\ out.stats.read = 1
    /\ out.stats.tenths = 500

-----------------------------------------------------------------------------
(* C10 *)

\* C10: whenever add, remove, toggle or import has returned, with success or
\* with failure, the catalog read through the handle is the catalog durably
\* committed.
C10_CommittedOnReturn ==
    out.op \in {"add", "remove", "toggle", "import"} =>
        (view = disk /\ seq = diskSeq)

-----------------------------------------------------------------------------
(* C11 *)

\* r2 is r but for its read_status.
SaveReadStatus(r, r2) == [r2 EXCEPT !.read_status = r.read_status] = r

\* C11: toggle_read_status(id) leaves the id, title, author,
\* publication_year, genre and added_date of its book and every other book
\* as they were and neither adds nor drops a book; no add or remove changes
\* a book that stays in the catalog; so across add, remove and toggle a
\* book keeps the added_date it was created with.
C11_OnlyToggleMutates ==
    [][ /\ out'.op = "toggle" =>
             \A id \in Ids :
                 UpdateReadStatus(id) =>
                     /\ IdsOf(view') = IdsOf(view)
                     /\ Cardinality(view') = Cardinality(view)
                     /\ \A r \in view, r2 \in view' :
                           r.id = r2.id =>
                               /\ SaveReadStatus(r, r2)
                               /\ r.id # id => r2 = r
        /\ out'.op \in {"add", "remove"} =>
             \A r \in view, r2 \in view' : r.id = r2.id => r2 = r
        /\ out'.op \in {"add", "remove", "toggle"} =>
             \A r \in view, r2 \in view' :
                 r.id = r2.id => r2.added_date = r.added_date ]_vars

\* The status of one of two books has been toggled, the other book differing
\* from it in read_status and in added_date.
C11_Witness ==
    /\ out.op = "toggle"
    /\ out.ret = "True"
    /\ Cardinality(view) = 2
    /\ Cardinality({ r.read_status : r \in view }) = 2
    /\ Cardinality({ r.added_date : r \in view }) = 2

====
